---- MODULE Spec2Model ----
(***************************************************************************)
(* A model of the stack-language interpreter of src/src/StackLang.ts.      *)
(*                                                                         *)
(* StackLang.run and the Vm methods are generators.  The model keeps the   *)
(* chain of suspended generator frames in ctl; every action resumes the    *)
(* innermost frame and runs the code up to its next yield, its throw or    *)
(* its return.  One event is appended to events per yield.                 *)
(***************************************************************************)
EXTENDS Integers, Sequences, FiniteSets, TLC

VARIABLES
  text,     \* StackLang.program: the source text
  words,    \* the tokens of text, in the order run() feeds them
  pos,      \* index in words of the next token to feed
  stack,    \* Vm.state.stack, bottom first
  vars,     \* Vm.state.vars, base scope first
  blocks,   \* Vm.state.blocks, oldest open block first
  ctl,      \* suspended generator frames below parse, outermost first
  events,   \* the events yielded so far
  status,   \* "init" | "running" | "done" | "error"
  err,      \* the error thrown, "" while none
  evalLog,  \* history: the values eval was called with while no block is open
  emitted   \* history: the contents of Vm.state at each yield, one per event

vars_all ==
  <<text, words, pos, stack, vars, blocks, ctl, events, status, err, evalLog, emitted>>

-----------------------------------------------------------------------------
(* Bounds of the model *)

\* Longest enumerated arithmetic program, in tokens.
MaxArithLen == 4

\* Longest enumerated program over MixedWords, in tokens.
MaxMixedLen == 3

\* Depth of nested generator frames at which the host's call stack is exhausted.
MaxDepth == 6

-----------------------------------------------------------------------------
(* Values (StackLang.ts 300-305).  A Num is kept as an exact fraction. *)

RECURSIVE Gcd(_, _)
Gcd(a, b) == IF b = 0 THEN a ELSE Gcd(b, a % b)

Abs(a) == IF a < 0 THEN -a ELSE a

\* The Num value n/d in lowest terms, d > 0.
Num(n, d) ==
  LET g == Gcd(Abs(n), Abs(d))
      s == IF d < 0 THEN -1 ELSE 1
  IN  [kind |-> "Num", num |-> (s * n) \div g, den |-> (s * d) \div g]

NumInt(n) == [kind |-> "Num", num |-> n, den |-> 1]

\* The outcome of a float operation that is no finite number:
\* "Infinity", "-Infinity" or "NaN".
NonFinite(name) == [kind |-> "Num", special |-> name]

IsFinite(v) == v.kind = "Num" /\ "num" \in DOMAIN v

Symbol(s) == [kind |-> "Symbol", sym |-> s]

Operator(s) == [kind |-> "Operator", op |-> s]

Block(vs) == [kind |-> "Block", values |-> vs]

Native(f) == [kind |-> "Native", fn |-> f]

\* A property a scope object inherits from Object.prototype: not a Value,
\* it has no kind of the language.
Inherited(p) == [kind |-> "undefined", prop |-> p]

\* `undefined`, the result of a failed lookup or of pop() on an empty array.
Undefined == [kind |-> "null"]

IsNull(v) == v.kind = "null"

-----------------------------------------------------------------------------
(* Number.parseFloat (StackLang.ts 93), on the tokens of the model:        *)
(* an optional sign, digits, an optional fraction; what follows is         *)
(* ignored.  Exponents and "Infinity" are outside the modelled tokens.     *)

Char(s, i) == SubSeq(s, i, i)

Digits == {"0", "1", "2", "3", "4", "5", "6", "7", "8", "9"}

DigitVal(c) ==
  CASE c = "0" -> 0 [] c = "1" -> 1 [] c = "2" -> 2 [] c = "3" -> 3
    [] c = "4" -> 4 [] c = "5" -> 5 [] c = "6" -> 6 [] c = "7" -> 7
    [] c = "8" -> 8 [] c = "9" -> 9

\* The index after the run of digits of s that starts at i.
RECURSIVE DigitsEnd(_, _)
DigitsEnd(s, i) ==
  IF i <= Len(s) /\ Char(s, i) \in Digits THEN DigitsEnd(s, i + 1) ELSE i

\* The value of the digits s[i..j-1] read as a decimal integer.
RECURSIVE DigitsVal(_, _, _)
DigitsVal(s, i, j) ==
  IF j <= i THEN 0 ELSE DigitsVal(s, i, j - 1) * 10 + DigitVal(Char(s, j - 1))

RECURSIVE Pow10(_)
Pow10(k) == IF k = 0 THEN 1 ELSE 10 * Pow10(k - 1)

NaN == NonFinite("NaN")

IsNaN(v) == ~IsFinite(v) /\ v.special = "NaN"

ParseFloat(word) ==
  LET signed == Len(word) >= 1 /\ Char(word, 1) \in {"+", "-"}
      sgn    == IF signed /\ Char(word, 1) = "-" THEN -1 ELSE 1
      i0     == IF signed THEN 2 ELSE 1
      i1     == DigitsEnd(word, i0)
      dot    == i1 <= Len(word) /\ Char(word, i1) = "."
      f0     == i1 + 1
      f1     == IF dot THEN DigitsEnd(word, f0) ELSE f0
      nfrac  == f1 - f0
  IN  IF i1 = i0 /\ nfrac = 0 THEN NaN
      ELSE Num(sgn * (DigitsVal(word, i0, i1) * Pow10(nfrac) + DigitsVal(word, f0, f1)),
               Pow10(nfrac))

-----------------------------------------------------------------------------
(* String.split on a one-character separator (StackLang.ts 7-8) *)

RECURSIVE Split(_, _)
Split(s, sep) ==
  LET hits == {i \in 1..Len(s) : Char(s, i) = sep}
  IN  IF hits = {} THEN <<s>>
      ELSE LET i == CHOOSE k \in hits : \A h \in hits : k <= h
           IN  <<SubSeq(s, 1, i - 1)>> \o Split(SubSeq(s, i + 1, Len(s)), sep)

RECURSIVE Flatten(_)
Flatten(ss) == IF ss = <<>> THEN <<>> ELSE Head(ss) \o Flatten(Tail(ss))

\* The words run() feeds to parse, in order: every line, split on spaces.
Tokenize(program) ==
  LET lines == Split(program, "\n")
  IN  Flatten([k \in 1..Len(lines) |-> Split(lines[k], " ")])

-----------------------------------------------------------------------------
(* Float arithmetic of the binary operators (StackLang.ts 157, 173, 189,   *)
(* 205, 221): exact on finite values, IEEE rules on the others.            *)

Inf(sign) == IF sign < 0 THEN NonFinite("-Infinity") ELSE NonFinite("Infinity")

\* -1, 0 or 1: the sign of a value that is not NaN.
Sign(v) ==
  IF IsFinite(v) THEN (IF v.num < 0 THEN -1 ELSE IF v.num = 0 THEN 0 ELSE 1)
  ELSE IF v.special = "-Infinity" THEN -1 ELSE 1

Neg(v) == IF IsFinite(v) THEN Num(-v.num, v.den) ELSE IF IsNaN(v) THEN v ELSE Inf(-Sign(v))

NumAdd(l, r) ==
  IF IsNaN(l) \/ IsNaN(r) THEN NaN
  ELSE IF IsFinite(l) /\ IsFinite(r) THEN Num(l.num * r.den + r.num * l.den, l.den * r.den)
  ELSE IF ~IsFinite(l) /\ ~IsFinite(r) THEN (IF Sign(l) = Sign(r) THEN l ELSE NaN)
  ELSE IF IsFinite(l) THEN r ELSE l

NumSub(l, r) == NumAdd(l, Neg(r))

NumMul(l, r) ==
  IF IsNaN(l) \/ IsNaN(r) THEN NaN
  ELSE IF IsFinite(l) /\ IsFinite(r) THEN Num(l.num * r.num, l.den * r.den)
  ELSE IF Sign(l) = 0 \/ Sign(r) = 0 THEN NaN
  ELSE Inf(Sign(l) * Sign(r))

NumDiv(l, r) ==
  IF IsNaN(l) \/ IsNaN(r) THEN NaN
  ELSE IF IsFinite(l) /\ IsFinite(r)
    THEN (IF r.num # 0 THEN Num(l.num * r.den, l.den * r.num)
          ELSE IF l.num = 0 THEN NaN ELSE Inf(Sign(l)))
  ELSE IF ~IsFinite(l) /\ ~IsFinite(r) THEN NaN
  ELSE IF IsFinite(l) THEN NumInt(0)
  ELSE Inf(Sign(l) * (IF Sign(r) < 0 THEN -1 ELSE 1))

NumLess(l, r) ==
  IF IsNaN(l) \/ IsNaN(r) THEN FALSE
  ELSE IF IsFinite(l) /\ IsFinite(r) THEN l.num * r.den < r.num * l.den
  ELSE IF ~IsFinite(l) /\ ~IsFinite(r) THEN Sign(l) < Sign(r)
  ELSE IF IsFinite(l) THEN Sign(r) > 0 ELSE Sign(l) < 0

NumLt(l, r) == IF NumLess(l, r) THEN NumInt(1) ELSE NumInt(0)

\* NonZero with the test inverted.
IsZero(v) == IsFinite(v) /\ v.num = 0

\* condResult.num !== 0 (StackLang.ts 247)
NonZero(v) == ~(IsFinite(v) /\ v.num = 0)

-----------------------------------------------------------------------------
(* The scope chain (StackLang.ts 27-70, 136-143) *)

\* The nine bindings of the base scope, each to the method it is bound to.
NativeNames == {"+", "-", "*", "/", "<", "if", "def", "exch", "puts"}

NativeFn(name) ==
  CASE name = "+" -> "add" [] name = "-" -> "sub" [] name = "*" -> "mul"
    [] name = "/" -> "div" [] name = "<" -> "lt" [] name = "if" -> "opIf"
    [] name = "def" -> "opDef" [] name = "exch" -> "opExch" [] name = "puts" -> "puts"

BaseScope == [n \in NativeNames |-> Native(NativeFn(n))]

\* The object literal {} of a fresh scope: no own property.
EmptyScope == [n \in {} |-> Undefined]

\* The properties every object literal inherits from Object.prototype.
ObjectPrototype ==
  {"constructor", "__proto__", "hasOwnProperty", "isPrototypeOf",
   "propertyIsEnumerable", "toLocaleString", "toString", "valueOf",
   "__defineGetter__", "__defineSetter__", "__lookupGetter__", "__lookupSetter__"}

\* varMap[word]: an own property, else an inherited one, else undefined.
ScopeGet(scope, word) ==
  IF word \in DOMAIN scope THEN scope[word]
  ELSE IF word \in ObjectPrototype THEN Inherited(word)
  ELSE Undefined

\* FindVar looking in the innermost scope and in the base scope only, not
\* in the scopes of the invocations in between.
FindVarLocalOrBase(chain, word) ==
  IF ~IsNull(ScopeGet(chain[Len(chain)], word)) THEN ScopeGet(chain[Len(chain)], word)
  ELSE ScopeGet(chain[1], word)

\* The innermost scope first; the first value that is not null or undefined.
FindVar(chain, word) ==
  LET hits == {k \in 1..Len(chain) : ~IsNull(ScopeGet(chain[k], word))}
  IN  IF hits = {} THEN Undefined
      ELSE ScopeGet(chain[CHOOSE k \in hits : \A h \in hits : h <= k], word)

\* ScopeDefine as a plain assignment: scope[sym] = value.
ScopeAssign(scope, sym, value) ==
  [n \in DOMAIN scope \cup {sym} |-> IF n = sym THEN value ELSE scope[n]]

\* scope[sym] ??= value (StackLang.ts 272)
ScopeDefine(scope, sym, value) ==
  IF ~IsNull(ScopeGet(scope, sym)) THEN scope
  ELSE [n \in DOMAIN scope \cup {sym} |-> IF n = sym THEN value ELSE scope[n]]

-----------------------------------------------------------------------------
(* The machine as one record, so that the steps of a handler compose. *)

Cur ==
  [stack |-> stack, vars |-> vars, blocks |-> blocks, ctl |-> ctl,
   events |-> events, status |-> status, err |-> err, evalLog |-> evalLog,
   emitted |-> emitted]

Become(m) ==
  /\ stack' = m.stack
  /\ vars' = m.vars
  /\ blocks' = m.blocks
  /\ ctl' = m.ctl
  /\ events' = m.events
  /\ status' = m.status
  /\ err' = m.err
  /\ evalLog' = m.evalLog
  /\ emitted' = m.emitted

Front(s) == SubSeq(s, 1, Len(s) - 1)

Last(s) == s[Len(s)]

\* The one VmState object of the Vm (StackLang.ts 27).  It is created once
\* and mutated in place; the events hold this reference, not a copy.
VmStateRef == "this.state"

\* stateEvent() (StackLang.ts 72-74)
StateEvent == [kind |-> "state", state |-> VmStateRef]

StackPopEvent(v) == [kind |-> "stackPop", state |-> VmStateRef, value |-> v]

PutsEvent(v) == [kind |-> "puts", value |-> v]

\* The contents of the VmState object of machine m.
Contents(m) == [stack |-> m.stack, vars |-> m.vars, blocks |-> m.blocks]

\* What a consumer reads from an event's state when machine m is the
\* machine at the time of the read: the VmState object as it is then.
Deref(m, ref) == IF ref = VmStateRef THEN Contents(m) ELSE Undefined

\* yield e: the event goes to the consumer of run(); emitted keeps what the
\* VmState object held at that moment.
Yield(m, e) ==
  [m EXCEPT !.events = Append(@, e), !.emitted = Append(@, Contents(m))]

\* throw: every suspended generator is abandoned; the Vm's state stays as it is.
Throw(m, msg) == [m EXCEPT !.status = "error", !.err = msg, !.ctl = <<>>]

Failed(m) == m.status = "error"

PushValue(m, v) == [m EXCEPT !.stack = Append(@, v)]

\* PopYield with a stackPopEvent that does not look at the value: the
\* undefined of an empty stack is yielded like any value.
PopYieldUnchecked(m) ==
  Yield([m EXCEPT !.stack = IF @ = <<>> THEN @ ELSE Front(@)],
        StackPopEvent(IF m.stack = <<>> THEN Undefined ELSE Last(m.stack)))

\* const x = this.state.stack.pop(); yield this.stackPopEvent(x);
\* stackPopEvent throws on the undefined that pop() gives on an empty stack
\* (StackLang.ts 76-79).
PopYield(m) ==
  IF m.stack = <<>> THEN Throw(m, "Stack pop error")
  ELSE Yield([m EXCEPT !.stack = Front(@)], StackPopEvent(Last(m.stack)))

\* What this.state.stack.pop() returns.
Popped(m) == IF m.stack = <<>> THEN Undefined ELSE Last(m.stack)

\* Suspend in a new innermost generator frame.
PushFrame(m, fr) == [m EXCEPT !.ctl = Append(@, fr)]

\* The innermost generator returns.
Return(m) == [m EXCEPT !.ctl = Front(@)]

\* The innermost frame continues as fr.
SetFrame(m, fr) == [m EXCEPT !.ctl = Append(Front(@), fr)]

\* The first statements of a native operator: pop and yield, then suspend in fr.
PopInto(m, fr) ==
  LET m1 == PopYield(m) IN IF Failed(m1) THEN m1 ELSE PushFrame(m1, fr)

BinaryFns == {"add", "sub", "mul", "div", "lt"}

\* variableValue.fn() (StackLang.ts 129): the operator up to its first yield.
CallNative(m, fn) ==
  LET top == Popped(m)
  IN  CASE fn \in BinaryFns -> PopInto(m, [f |-> "binary", fn |-> fn, pc |-> "left", right |-> top])
        [] fn = "opIf"   -> PopInto(m, [f |-> "opIf", pc |-> "falseBranch", falseBranch |-> top])
        [] fn = "opDef"  -> PopInto(m, [f |-> "opDef", pc |-> "eval", value |-> top])
        [] fn = "opExch" -> PopInto(m, [f |-> "opExch", pc |-> "second", last |-> top])
        [] fn = "puts"   -> PopInto(m, [f |-> "puts", value |-> top])

\* eval(code) up to its first yield or throw (StackLang.ts 104-134).
Eval(m, code) ==
  IF m.blocks # <<>>
    THEN Yield([m EXCEPT !.blocks[Len(m.blocks)] = Append(@, code)], StateEvent)
  ELSE LET m1 == [m EXCEPT !.evalLog = Append(@, code)] IN
    IF code.kind # "Operator" THEN Yield(PushValue(m1, code), StateEvent)
    ELSE LET variableValue == FindVar(m1.vars, code.op) IN
      IF IsNull(variableValue) THEN Throw(m1, code.op \o " is not a defined operation")
      ELSE IF variableValue.kind = "Block"
        THEN IF Len(m1.ctl) >= MaxDepth THEN Throw(m1, "Maximum call stack size exceeded")
             ELSE Yield(PushFrame([m1 EXCEPT !.vars = Append(@, EmptyScope)],
                                  [f |-> "invoke", values |-> variableValue.values,
                                   i |-> 1, chain |-> m1.vars]),
                        StateEvent)
      ELSE IF variableValue.kind = "Native" THEN CallNative(m1, variableValue.fn)
      ELSE Yield(PushValue(m1, variableValue), StateEvent)

-----------------------------------------------------------------------------
(* The native operators after their first yield.  m is the machine, fr its *)
(* innermost frame, suspended at the yield that fr.pc names.               *)

\* The message of the Error a binary operator throws; lt's names "/"
\* (StackLang.ts 220).
BinaryError(fn) ==
  CASE fn = "add" -> "Expect Num Num +" [] fn = "sub" -> "Expect Num Num -"
    [] fn = "mul" -> "Expect Num Num *" [] fn = "div" -> "Expect Num Num /"
    [] fn = "lt" -> "Expect Num Num /"

\* BinaryResult with the operands taken in the order they are popped.
BinaryResultPopOrder(fn, left, right) ==
  CASE fn = "add" -> NumAdd(right, left) [] fn = "sub" -> NumSub(right, left)
    [] fn = "mul" -> NumMul(right, left) [] fn = "div" -> NumDiv(right, left)
    [] fn = "lt" -> NumLt(right, left)

BinaryResult(fn, left, right) ==
  CASE fn = "add" -> NumAdd(left, right) [] fn = "sub" -> NumSub(left, right)
    [] fn = "mul" -> NumMul(left, right) [] fn = "div" -> NumDiv(left, right)
    [] fn = "lt" -> NumLt(left, right)

\* ResumeBinary computing before it checks: operands that are not both
\* Numbers leave NaN on the stack before the error is thrown.
ResumeBinaryChecksLate(m, fr) ==
  IF fr.pc = "left"
    THEN LET m1 == PopYield(m)
         IN  IF Failed(m1) THEN m1
             ELSE SetFrame(m1, [f |-> "binary", fn |-> fr.fn, pc |-> "check",
                                right |-> fr.right, left |-> Popped(m)])
  ELSE IF fr.right.kind # "Num" \/ fr.left.kind # "Num"
    THEN Throw(PushValue(m, NaN), BinaryError(fr.fn))
  ELSE Return(Yield(PushValue(m, BinaryResult(fr.fn, fr.left, fr.right)), StateEvent))

\* add, sub, mul, div, lt (StackLang.ts 145-223)
ResumeBinary(m, fr) ==
  IF fr.pc = "left"
    THEN LET m1 == PopYield(m)
         IN  IF Failed(m1) THEN m1
             ELSE SetFrame(m1, [f |-> "binary", fn |-> fr.fn, pc |-> "check",
                                right |-> fr.right, left |-> Popped(m)])
  ELSE IF fr.right.kind # "Num" \/ fr.left.kind # "Num"
    THEN Throw(m, BinaryError(fr.fn))
  ELSE Return(Yield(PushValue(m, BinaryResult(fr.fn, fr.left, fr.right)), StateEvent))

\* EvalNext taking the values from the last to the first.
EvalNextBackwards(m, fr) ==
  Eval(SetFrame(m, [fr EXCEPT !.i = @ + 1]), fr.values[Len(fr.values) + 1 - fr.i])

\* One turn of `for (const v of values) yield* this.eval(v)` in frame fr,
\* which holds the values and the index i of the next one.
EvalNext(m, fr) == Eval(SetFrame(m, [fr EXCEPT !.i = @ + 1]), fr.values[fr.i])

\* IfBranch running the branch like an invoked Block, in a scope of its
\* own: pushed before the first value, popped when opIf returns.
IfBranchInOwnScope(m, fr) ==
  IF fr.i <= Len(fr.values)
    THEN EvalNext([m EXCEPT !.vars = IF fr.i = 1 THEN Append(@, EmptyScope) ELSE @], fr)
  ELSE Return([m EXCEPT !.vars = IF fr.values = <<>> THEN @ ELSE Front(@)])

\* The loop over the chosen branch (StackLang.ts 247-255); opIf returns,
\* without a yield, after the last value.
IfBranch(m, fr) ==
  IF fr.i <= Len(fr.values) THEN EvalNext(m, fr) ELSE Return(m)

\* IfCond reading the result of the condition without popping it.
IfCondPeek(m, fr) ==
  IF fr.i <= Len(fr.values) THEN EvalNext(m, fr)
  ELSE IF m.stack = <<>> THEN Throw(m, "Stack pop error")
  ELSE SetFrame(Yield(m, StackPopEvent(Last(m.stack))),
                [f |-> "opIf", pc |-> "condResult",
                 falseBranch |-> fr.falseBranch, trueBranch |-> fr.trueBranch,
                 condResult |-> Last(m.stack)])

\* The loop over cond.values, then the pop of its result (StackLang.ts 239-243).
IfCond(m, fr) ==
  IF fr.i <= Len(fr.values) THEN EvalNext(m, fr)
  ELSE LET m1 == PopYield(m)
       IN  IF Failed(m1) THEN m1
           ELSE SetFrame(m1, [f |-> "opIf", pc |-> "condResult",
                              falseBranch |-> fr.falseBranch, trueBranch |-> fr.trueBranch,
                              condResult |-> Popped(m)])

\* opIf (StackLang.ts 225-256)
ResumeIf(m, fr) ==
  CASE fr.pc = "falseBranch" ->
         IF fr.falseBranch.kind # "Block" THEN Throw(m, "Expect block")
         ELSE LET m1 == PopYield(m)
              IN  IF Failed(m1) THEN m1
                  ELSE SetFrame(m1, [f |-> "opIf", pc |-> "trueBranch",
                                     falseBranch |-> fr.falseBranch,
                                     trueBranch |-> Popped(m)])
    [] fr.pc = "trueBranch" ->
         IF fr.trueBranch.kind # "Block" THEN Throw(m, "Expect block")
         ELSE LET m1 == PopYield(m)
              IN  IF Failed(m1) THEN m1
                  ELSE SetFrame(m1, [f |-> "opIf", pc |-> "cond",
                                     falseBranch |-> fr.falseBranch,
                                     trueBranch |-> fr.trueBranch,
                                     cond |-> Popped(m)])
    [] fr.pc = "cond" ->
         IF fr.cond.kind # "Block" THEN Throw(m, "Expect block")
         ELSE IfCond(m, [f |-> "opIf", pc |-> "condLoop",
                         falseBranch |-> fr.falseBranch, trueBranch |-> fr.trueBranch,
                         values |-> fr.cond.values, i |-> 1])
    [] fr.pc = "condLoop" -> IfCond(m, fr)
    [] fr.pc = "condResult" ->
         IF fr.condResult.kind # "Num" THEN Throw(m, "Expect num")
         ELSE IfBranch(m, [f |-> "opIf", pc |-> "branch", i |-> 1,
                           values |-> IF NonZero(fr.condResult)
                                        THEN fr.trueBranch.values
                                        ELSE fr.falseBranch.values])
    [] fr.pc = "branch" -> IfBranch(m, fr)

\* opDef (StackLang.ts 258-274)
ResumeDef(m, fr) ==
  CASE fr.pc = "eval" ->
         Eval(SetFrame(m, [f |-> "opDef", pc |-> "evalResult"]), fr.value)
    [] fr.pc = "evalResult" ->
         LET m1 == PopYield(m)
         IN  IF Failed(m1) THEN m1
             ELSE SetFrame(m1, [f |-> "opDef", pc |-> "symbol",
                                evalResult |-> Popped(m)])
    [] fr.pc = "symbol" ->
         LET m1 == PopYield(m)
         IN  IF Failed(m1) THEN m1
             ELSE SetFrame(m1, [f |-> "opDef", pc |-> "bind",
                                evalResult |-> fr.evalResult, symbol |-> Popped(m)])
    [] fr.pc = "bind" ->
         IF fr.symbol.kind # "Symbol" THEN Throw(m, "Expect symbol")
         ELSE Return(Yield([m EXCEPT !.vars[Len(m.vars)] =
                                       ScopeDefine(@, fr.symbol.sym, fr.evalResult)],
                           StateEvent))

\* opExch (StackLang.ts 276-290)
ResumeExch(m, fr) ==
  CASE fr.pc = "second" ->
         LET m1 == PopYield(m)
         IN  IF Failed(m1) THEN m1
             ELSE SetFrame(m1, [f |-> "opExch", pc |-> "eval", last |-> fr.last,
                                second |-> Popped(m)])
    [] fr.pc = "eval" ->
         Eval(SetFrame(m, [fr EXCEPT !.pc = "pushLast"]), fr.second)
    [] fr.pc = "pushLast" ->
         Yield(PushValue(SetFrame(m, [fr EXCEPT !.pc = "pushSecond"]), fr.last), StateEvent)
    [] fr.pc = "pushSecond" ->
         Return(Yield(PushValue(m, fr.second), StateEvent))

\* puts, after the pop (StackLang.ts 295-296)
ResumePuts(m, fr) == Return(Yield(m, PutsEvent(fr.value)))

\* ResumeInvoke leaving the scope of the invocation on the chain.
ResumeInvokeKeepsScope(m, fr) ==
  IF fr.i <= Len(fr.values) THEN EvalNext(m, fr)
  ELSE Return(Yield(m, StateEvent))

\* eval of an Operator bound to a Block, after the scope is pushed
\* (StackLang.ts 123-127)
ResumeInvoke(m, fr) ==
  IF fr.i <= Len(fr.values) THEN EvalNext(m, fr)
  ELSE Return(Yield([m EXCEPT !.vars = Front(@)], StateEvent))

\* ResumeClose pushing the closed Block on the operand stack whether or
\* not an outer block literal is still open.
ResumeCloseToStack(m, fr) ==
  IF fr.underflow THEN Throw(m, "Block stack underflow")
  ELSE Yield(PushValue(Return(m), Block(fr.values)), StateEvent)

\* ResumeClose with a state event of parse after the eval of the Block.
ResumeCloseYieldsAgain(m, fr) ==
  IF fr.underflow THEN Throw(m, "Block stack underflow")
  ELSE Yield(Eval(Return(m), Block(fr.values)), StateEvent)

\* parse of "}", after the yield (StackLang.ts 90-91)
ResumeClose(m, fr) ==
  IF fr.underflow THEN Throw(m, "Block stack underflow")
  ELSE Eval(Return(m), Block(fr.values))

\* The Value of a word that is not "", "{" or "}" (StackLang.ts 93-100).
Classify(word) ==
  LET num == ParseFloat(word)
  IN  IF ~IsNaN(num) THEN num
      ELSE IF Len(word) >= 1 /\ Char(word, 1) = "/"
        THEN Symbol(SubSeq(word, 2, Len(word)))
      ELSE Operator(word)

-----------------------------------------------------------------------------
(* The programs the model runs *)

\* The words of ws joined by single spaces.
RECURSIVE Join(_)
Join(ws) ==
  IF Len(ws) = 0 THEN ""
  ELSE IF Len(ws) = 1 THEN ws[1]
  ELSE Join(Front(ws)) \o " " \o Last(ws)

\* Every text of 1..n words of alphabet, single spaces between them.
RECURSIVE TextsOver(_, _)
TextsOver(alphabet, n) ==
  IF n = 0 THEN {}
  ELSE IF n = 1 THEN alphabet
  ELSE LET shorter == TextsOver(alphabet, n - 1)
       IN  shorter \cup {t \o " " \o w : t \in {u \in shorter : Len(Split(u, " ")) = n - 1},
                                         w \in alphabet}

\* The program the page starts with (src/unnamed/part_000 9-16).
initialInput == "/x 10 def\n/y { 20 } def\n/xy { x y + } def\n\nxy x *\nputs\n"

ArithWords == {"2", "3", "4", "10", "-5", "+", "-", "*"}

ArithTexts == TextsOver(ArithWords, MaxArithLen)

ExampleTexts ==
  {initialInput,
   "3 4 +", "10 2 -", "-5 1.5 *", "2 3 <", "3 2 <",
   "/x 10 def x", "/x 10 def x /x 20 def x",
   "1 { 2 } { 3 } if", "0 { 2 } { 3 } if",
   "{ 1 } { 2 } { 3 } if", "{ 0 } { 2 } { 3 } if",
   "6 3 /", "1 2 exch", "7 1 2 exch", "puts", "1 +", "foo", "toString", "}",
   "{ 1 2 + }", "{ { 1 } }", "1 2 if", "/f { f } def f"}

\* Words of every kind parse tells apart, for the enumerated short programs.
MixedWords ==
  {"1", "{", "}", "+", "if", "def", "exch", "puts", "/x", "x", "foo", "toString"}

MixedTexts == TextsOver(MixedWords, MaxMixedLen)

\* Two definitions of one name in one scope, each followed by a use of the
\* name: at top level, and inside the invocation of a block.
DefNames == {"x", "y", "toString"}

DefWords == {"10", "20"}

DefText(n, v1, v2) == "/" \o n \o " " \o v1 \o " def " \o n \o " /" \o n \o " " \o v2 \o " def " \o n

DefTextIn(n, v1, v2) == "/f { " \o DefText(n, v1, v2) \o " } def f"

DefTexts ==
  {DefText(n, v1, v2) : n \in DefNames, v1 \in DefWords, v2 \in DefWords}
    \cup {DefTextIn(n, v1, v2) : n \in DefNames, v1 \in DefWords, v2 \in DefWords}

\* a b / and below a b exch, with and without a value below the operands.
OperandWords == {"6", "3", "2"}

DivTexts == {a \o " " \o b \o " /" : a \in OperandWords, b \in OperandWords}

ExchTexts ==
  {p \o a \o " " \o b \o " exch" : p \in {"", "7 "}, a \in OperandWords, b \in OperandWords}

\* Condition bodies, with the Number c each leaves on top, the Numbers it
\* leaves below c, and the number of values its operators pop.
Conds ==
  {[src |-> "{ 1 }", c |-> 1, below |-> <<>>, pops |-> 0],
   [src |-> "{ 0 }", c |-> 0, below |-> <<>>, pops |-> 0],
   [src |-> "{ -1 }", c |-> -1, below |-> <<>>, pops |-> 0],
   [src |-> "{ 2 3 < }", c |-> 1, below |-> <<>>, pops |-> 2],
   [src |-> "{ 3 2 < }", c |-> 0, below |-> <<>>, pops |-> 2],
   [src |-> "{ 2 2 - }", c |-> 0, below |-> <<>>, pops |-> 2],
   [src |-> "{ 5 0 }", c |-> 0, below |-> <<5>>, pops |-> 0]}

\* Branch bodies, with the Numbers each leaves on the stack.
TrueBranches ==
  {[src |-> "{ 2 }", leaves |-> <<2>>],
   [src |-> "{ 7 8 + }", leaves |-> <<15>>],
   [src |-> "{ }", leaves |-> <<>>]}

FalseBranches ==
  {[src |-> "{ 3 }", leaves |-> <<3>>],
   [src |-> "{ 9 1 - }", leaves |-> <<8>>],
   [src |-> "{ }", leaves |-> <<>>]}

IfText(p, c, t, f) == p \o c.src \o " " \o t.src \o " " \o f.src \o " if"

IfTexts ==
  {IfText(p, c, t, f) : p \in {"", "4 "}, c \in Conds, t \in TrueBranches, f \in FalseBranches}

\* Definitions made while the scope of a block invocation is topmost.
ScopeTexts ==
  {"/f { /x 1 def x } def f x",
   "/f { /x 1 def } def f x",
   "/f { /g { /x 1 def } def g x } def f",
   "/x 5 def /f { /x 1 def x } def f x",
   "/f { { 1 } { /x 2 def } { } if x } def f x",
   "/f { + } def 1 f",
   "/f { { 1 } { 2 } { 3 } if } def f"}

\* Native operators given a value of the wrong kind.
TypeTexts ==
  {"/x 1 +", "1 /x +", "{ } 1 <", "1 { 2 } *", "toString 1 -", "/x +",
   "1 2 if", "1 { 2 } if", "{ 1 } 2 { 3 } if", "{ 1 } { 2 } 3 if", "/c { 2 } { 3 } if",
   "{ /a } { 2 } { 3 } if", "{ { 1 } } { 2 } { 3 } if", "{ toString } { 2 } { 3 } if",
   "1 2 def", "{ 1 } 2 def", "/f { 1 2 def } def f", "/x 1 def x 2 def"}

\* Block literals: words of every kind inside, nested literals, an empty
\* word inside, a literal left open.
CaptureTexts ==
  {"{ foo + puts if def exch }", "{ 1 /x x toString }", "{ 1.5 -5 / }",
   "{ { 1 } 2 }", "{ { { } } }", "1 { 2 { 3 + } 4 }", "{ 1  2 }", "{ { foo }",
   "{ 1 } { { 2 } { 3 } }", "/f { { 1 2 + } } def f"}

\* Definitions that name a native operator, at top level and inside the
\* invocation of a block, each followed by a use of the operator.
NativeDefTexts ==
  {"/" \o n \o " 7 def 1 2 " \o n : n \in NativeNames}
    \cup {"/" \o n \o " { 7 } def" : n \in NativeNames}
    \cup {"/f { /+ 7 def 1 2 + } def f 1 2 +", "/f { /def 7 def /x 1 def } def f /x 1 def x",
          "/f { /f 1 def f } def f f", "/f { /g { 1 + } def g } def 1 f"}

\* `if` whose condition or branch binds a name or invokes a block, at top
\* level and inside the invocation of a block.
IfScopeTexts ==
  {"{ 1 } { /x 2 def } { } if x", "{ /x 5 def 1 } { x } { } if x",
   "{ 0 } { } { /x 3 def } if x", "/x 1 def { 1 } { /x 2 def x } { } if x",
   "/f { { /x 5 def 1 } { x } { } if x } def f", "/f { { /x 5 def 1 } { x } { } if } def f x",
   "/g { 9 } def { g 1 } { g } { } if", "/g { /x 4 def x } def { 1 } { g x } { } if",
   "{ 1 } { { 0 } { } { /x 6 def } if } { } if x"}

\* Uses of a property that scopes inherit from Object.prototype, and the
\* same programs with a name that is no such property.
InheritedTexts ==
  {"/x " \o n \o " def x" : n \in {"toString", "valueOf", "foo"}}
    \cup {"1 " \o n \o " exch" : n \in {"toString", "constructor", "foo"}}
    \cup {"{ " \o n \o " } { 2 } { 3 } if" : n \in {"hasOwnProperty", "foo"}}

\* A block g that names x, invoked where x is bound by the caller's
\* invocation, at top level, before and after the binding is made.
DynamicTexts ==
  {"/g { x } def /f { /x 1 def g } def f", "/g { x } def g",
   "/g { x } def /f { /x 1 def g } def f g",
   "/x 5 def /g { x } def /f { /x 1 def g } def f g",
   "/g { x } def /x 2 def g",
   "/g { x } def /f { /x 1 def g } def /h { /x 3 def f g } def h"}

\* Texts with no word, with several lines, with empty words.
DriverTexts == {"", "\n", "2\n3", "2  3", " 2", "2 \n", "2 3\n+\n\n4 *"}

Programs ==
  ExampleTexts \cup ArithTexts \cup MixedTexts \cup DefTexts \cup DivTexts \cup ExchTexts
    \cup IfTexts \cup ScopeTexts \cup TypeTexts \cup CaptureTexts \cup DriverTexts
    \cup NativeDefTexts \cup IfScopeTexts \cup InheritedTexts \cup DynamicTexts

-----------------------------------------------------------------------------
(* The specification *)

Init ==
  /\ text \in Programs
  /\ words = Tokenize(text)
  /\ pos = 1
  /\ stack = <<>>
  /\ vars = <<BaseScope>>
  /\ blocks = <<>>
  /\ ctl = <<>>
  /\ events = <<>>
  /\ status = "init"
  /\ err = ""
  /\ evalLog = <<>>
  /\ emitted = <<>>

\* run() up to its first yield (StackLang.ts 6).
Start ==
  /\ status = "init"
  /\ Become(Yield([Cur EXCEPT !.status = "running"], StateEvent))
  /\ UNCHANGED <<text, words, pos>>

\* run() is between two words, or before the first.
AtWord == status = "running" /\ ctl = <<>> /\ pos <= Len(words)

\* parse("") (StackLang.ts 82)
ParseEmpty ==
  /\ AtWord
  /\ words[pos] = ""
  /\ Become(Yield(Cur, StateEvent))
  /\ pos' = pos + 1
  /\ UNCHANGED <<text, words>>

\* parse("{") (StackLang.ts 84-86)
ParseOpen ==
  /\ AtWord
  /\ words[pos] = "{"
  /\ Become(Yield([Cur EXCEPT !.blocks = Append(@, <<>>)], StateEvent))
  /\ pos' = pos + 1
  /\ UNCHANGED <<text, words>>

\* parse("}") up to its yield (StackLang.ts 87-89)
ParseClose ==
  /\ AtWord
  /\ words[pos] = "}"
  /\ Become(Yield(PushFrame([Cur EXCEPT !.blocks = Front(@)],
                            [f |-> "close", underflow |-> blocks = <<>>,
                             values |-> IF blocks = <<>> THEN <<>> ELSE Last(blocks)]),
                  StateEvent))
  /\ pos' = pos + 1
  /\ UNCHANGED <<text, words>>

\* parse of any other word (StackLang.ts 92-101)
ParseValue ==
  /\ AtWord
  /\ words[pos] \notin {"", "{", "}"}
  /\ Become(Eval(Cur, Classify(words[pos])))
  /\ pos' = pos + 1
  /\ UNCHANGED <<text, words>>

\* The innermost suspended generator is one of kind f.
Suspended(f) == status = "running" /\ ctl # <<>> /\ Last(ctl).f = f

CloseStep ==
  /\ Suspended("close")
  /\ Become(ResumeClose(Cur, Last(ctl)))
  /\ UNCHANGED <<text, words, pos>>

InvokeStep ==
  /\ Suspended("invoke")
  /\ Become(ResumeInvoke(Cur, Last(ctl)))
  /\ UNCHANGED <<text, words, pos>>

BinaryStep ==
  /\ Suspended("binary")
  /\ Become(ResumeBinary(Cur, Last(ctl)))
  /\ UNCHANGED <<text, words, pos>>

IfStep ==
  /\ Suspended("opIf")
  /\ Become(ResumeIf(Cur, Last(ctl)))
  /\ UNCHANGED <<text, words, pos>>

DefStep ==
  /\ Suspended("opDef")
  /\ Become(ResumeDef(Cur, Last(ctl)))
  /\ UNCHANGED <<text, words, pos>>

ExchStep ==
  /\ Suspended("opExch")
  /\ Become(ResumeExch(Cur, Last(ctl)))
  /\ UNCHANGED <<text, words, pos>>

PutsStep ==
  /\ Suspended("puts")
  /\ Become(ResumePuts(Cur, Last(ctl)))
  /\ UNCHANGED <<text, words, pos>>

\* Finish with an event of run() itself after the last word.
FinishYields ==
  /\ status = "running"
  /\ ctl = <<>>
  /\ pos > Len(words)
  /\ Become(Yield([Cur EXCEPT !.status = "done"], StateEvent))
  /\ UNCHANGED <<text, words, pos>>

\* run() returns after the last word (StackLang.ts 7-12).
Finish ==
  /\ status = "running"
  /\ ctl = <<>>
  /\ pos > Len(words)
  /\ status' = "done"
  /\ UNCHANGED <<text, words, pos, stack, vars, blocks, ctl, events, err, evalLog, emitted>>

Next ==
  \/ Start
  \/ ParseEmpty
  \/ ParseOpen
  \/ ParseClose
  \/ ParseValue
  \/ CloseStep
  \/ InvokeStep
  \/ BinaryStep
  \/ IfStep
  \/ DefStep
  \/ ExchStep
  \/ PutsStep
  \/ Finish

Spec == Init /\ [][Next]_vars_all

\* The run is over: run() has returned or thrown.
Over == status \in {"done", "error"}

-----------------------------------------------------------------------------
(* C1: arithmetic programs agree with reverse Polish evaluation *)

\* The integer an arithmetic word denotes.
RefInt(w) ==
  CASE w = "2" -> 2 [] w = "3" -> 3 [] w = "4" -> 4 [] w = "10" -> 10 [] w = "-5" -> -5

\* Ordinary left-to-right RPN evaluation on integers: st is the stack of
\* results, ok is FALSE once an operator found fewer than two operands.
RpnStep(r, w) ==
  IF ~r.ok THEN r
  ELSE IF w \in {"+", "-", "*"}
    THEN IF Len(r.st) < 2 THEN [ok |-> FALSE, st |-> <<>>]
         ELSE LET a == r.st[Len(r.st) - 1]
                  b == r.st[Len(r.st)]
                  c == CASE w = "+" -> a + b [] w = "-" -> a - b [] w = "*" -> a * b
              IN  [ok |-> TRUE, st |-> Append(SubSeq(r.st, 1, Len(r.st) - 2), c)]
  ELSE [ok |-> TRUE, st |-> Append(r.st, RefInt(w))]

RECURSIVE Rpn(_)
Rpn(ws) ==
  IF ws = <<>> THEN [ok |-> TRUE, st |-> <<>>] ELSE RpnStep(Rpn(Front(ws)), Last(ws))

\* C1: a program of integer words and the operators + - * that never
\* underflows ends without error, and the top of its operand stack is then
\* the value RPN evaluation gives, the earlier operand on the left.
C1_RpnAgrees ==
  (text \in ArithTexts /\ Over /\ Rpn(Split(text, " ")).ok)
    => /\ status = "done"
       /\ stack # <<>>
       /\ Last(stack) = NumInt(Last(Rpn(Split(text, " ")).st))

C1_Witness ==
  /\ text = "10 2 -"
  /\ status = "done"
  /\ stack = <<NumInt(8)>>

-----------------------------------------------------------------------------
(* C2: def binds once per scope *)

\* The integer a number word of the families denotes.
RefNum(w) ==
  CASE w = "10" -> 10 [] w = "20" -> 20 [] w = "6" -> 6 [] w = "3" -> 3 [] w = "2" -> 2

\* scope with name bound to value.
Bound(scope, name, value) ==
  [k \in DOMAIN scope \cup {name} |-> IF k = name THEN value ELSE scope[k]]

\* C2: for every name n and values v1, v2: after /n v1 def, a later
\* /n v2 def in the same scope leaves n bound to v1, and n pushes v1 after
\* each of them; the scopes below the topmost one are left as they were.
C2_DefOnce ==
  \A n \in DefNames, v1 \in DefWords, v2 \in DefWords :
    /\ (text = DefText(n, v1, v2) /\ Over)
         => /\ status = "done"
            /\ stack = <<NumInt(RefNum(v1)), NumInt(RefNum(v1))>>
            /\ vars = <<Bound(BaseScope, n, NumInt(RefNum(v1)))>>
    /\ (text = DefTextIn(n, v1, v2) /\ Suspended("invoke") /\ Len(ctl) = 1
                                    /\ Last(ctl).i > Len(Last(ctl).values))
         => /\ stack = <<NumInt(RefNum(v1)), NumInt(RefNum(v1))>>
            /\ Len(vars) = 2
            /\ vars[2] = Bound(EmptyScope, n, NumInt(RefNum(v1)))
            /\ DOMAIN vars[1] = NativeNames \cup {"f"}

\* The same, for the names that are no property of Object.prototype.
C2_DefOnceOwnNames ==
  \A n \in DefNames \ ObjectPrototype, v1 \in DefWords, v2 \in DefWords :
    /\ (text = DefText(n, v1, v2) /\ Over)
         => /\ status = "done"
            /\ stack = <<NumInt(RefNum(v1)), NumInt(RefNum(v1))>>
            /\ vars = <<Bound(BaseScope, n, NumInt(RefNum(v1)))>>
    /\ (text = DefTextIn(n, v1, v2) /\ Suspended("invoke") /\ Len(ctl) = 1
                                    /\ Last(ctl).i > Len(Last(ctl).values))
         => /\ stack = <<NumInt(RefNum(v1)), NumInt(RefNum(v1))>>
            /\ Len(vars) = 2
            /\ vars[2] = Bound(EmptyScope, n, NumInt(RefNum(v1)))
            /\ DOMAIN vars[1] = NativeNames \cup {"f"}

-----------------------------------------------------------------------------
(* C4: the examples of if *)

\* C4 as stated: 1 { 2 } { 3 } if ends without error with 2 on top,
\* 0 { 2 } { 3 } if with 3 on top.
C4_NumberCondition ==
  /\ (text = "1 { 2 } { 3 } if" /\ Over)
       => (status = "done" /\ stack # <<>> /\ Last(stack) = NumInt(2))
  /\ (text = "0 { 2 } { 3 } if" /\ Over)
       => (status = "done" /\ stack # <<>> /\ Last(stack) = NumInt(3))

\* C4, amended: with the condition given as a Block, { 1 } { 2 } { 3 } if
\* ends without error with 2 on top and { 0 } { 2 } { 3 } if with 3 on top;
\* with the condition given as a bare Number the run ends with the error
\* "Expect block" once the Number is popped as the condition.
C4_BlockCondition ==
  /\ (text = "{ 1 } { 2 } { 3 } if" /\ Over)
       => (status = "done" /\ stack = <<NumInt(2)>>)
  /\ (text = "{ 0 } { 2 } { 3 } if" /\ Over)
       => (status = "done" /\ stack = <<NumInt(3)>>)
  /\ (text \in {"1 { 2 } { 3 } if", "0 { 2 } { 3 } if"} /\ Over)
       => (status = "error" /\ err = "Expect block" /\ stack = <<>>)

C4_Witness ==
  /\ text = "{ 0 } { 2 } { 3 } if"
  /\ status = "done"
  /\ stack = <<NumInt(3)>>
  /\ StackPopEvent(NumInt(0)) = events[Len(events) - 1]

-----------------------------------------------------------------------------
(* C6: the word "/" *)

\* C6: with Numbers a below b on the stack, the word "/" pops both and
\* pushes a / b.
C6_SlashDivides ==
  \A a \in OperandWords, b \in OperandWords :
    (text = a \o " " \o b \o " /" /\ Over)
      => (status = "done" /\ stack = <<Num(RefNum(a), RefNum(b))>>)

-----------------------------------------------------------------------------
(* C7: exch *)

\* C7: exch turns a stack [..., a, b] into [..., b, a].
C7_ExchSwaps ==
  \A p \in {"", "7 "}, a \in OperandWords, b \in OperandWords :
    (text = p \o a \o " " \o b \o " exch" /\ Over)
      => /\ status = "done"
         /\ stack = (IF p = "" THEN <<>> ELSE <<NumInt(7)>>)
                      \o <<NumInt(RefNum(b)), NumInt(RefNum(a))>>

-----------------------------------------------------------------------------
(* C9: operators that are not defined *)

\* This step calls eval, outside a block literal, on an Operator.
EvalsOperator ==
  /\ Len(evalLog') = Len(evalLog) + 1
  /\ Last(evalLog').kind = "Operator"

\* No scope of the chain has a binding of name: it is not native and def
\* has bound it in no scope.
Unbound(name) == \A k \in 1..Len(vars) : name \notin DOMAIN vars[k]

\* C9: evaluating an Operator whose name no scope binds throws
\* "<name> is not a defined operation" and pushes nothing.
C9_UnboundThrows ==
  [][(EvalsOperator /\ Unbound(Last(evalLog').op))
       => /\ status' = "error"
          /\ err' = Last(evalLog').op \o " is not a defined operation"
          /\ stack' = stack]_vars_all

\* The same, for the names that are no property of Object.prototype.
C9_UnboundOwnNamesThrow ==
  [][(EvalsOperator /\ Unbound(Last(evalLog').op)
                    /\ Last(evalLog').op \notin ObjectPrototype)
       => /\ status' = "error"
          /\ err' = Last(evalLog').op \o " is not a defined operation"
          /\ stack' = stack]_vars_all

-----------------------------------------------------------------------------
(* C3: invoking a Block, and the program the page starts with *)

IsPuts(e) == e.kind = "puts"

\* The values eval is called with, in order, while initialInput runs.
InitialInputEvals ==
  LET b20  == Block(<<NumInt(20)>>)
      bxy  == Block(<<Operator("x"), Operator("y"), Operator("+")>>)
  IN  <<Symbol("x"), NumInt(10), Operator("def"), NumInt(10),
        Symbol("y"), b20, Operator("def"), b20,
        Symbol("xy"), bxy, Operator("def"), bxy,
        Operator("xy"), Operator("x"), Operator("y"), NumInt(20), Operator("+"),
        Operator("x"), Operator("*"), Operator("puts")>>

\* C3: every Block invocation in progress has pushed exactly one scope,
\* empty when the invocation starts and popped when it ends; the values of
\* the Block are evaluated in their captured order; and initialInput has
\* the single value 300 on the stack when `puts` is reached, which emits
\* 300 and leaves the stack empty.
C3_InvokeAndInitialInput ==
  /\ status # "error" => Len(vars) = 1 + Cardinality({k \in 1..Len(ctl) : ctl[k].f = "invoke"})
  /\ (Suspended("invoke") /\ Last(ctl).i = 1) => Last(vars) = EmptyScope
  /\ text = initialInput =>
       /\ status # "error"
       /\ (AtWord /\ words[pos] = "puts") => stack = <<NumInt(300)>>
       /\ status = "done" =>
            /\ stack = <<>>
            /\ SelectSeq(events, IsPuts) = <<PutsEvent(NumInt(300))>>
            /\ evalLog = InitialInputEvals
            /\ Len(vars) = 1
            /\ DOMAIN vars[1] = NativeNames \cup {"x", "y", "xy"}

C3_Witness ==
  /\ text = initialInput
  /\ status = "done"
  /\ stack = <<>>
  /\ events[Len(events) - 1] = PutsEvent(NumInt(300))

-----------------------------------------------------------------------------
(* C5: if evaluates the condition and exactly one branch *)

\* The values captured by the block literal src, "{ w1 ... wn }".
BodyValues(src) ==
  LET ws == Split(src, " ") IN [k \in 1..(Len(ws) - 2) |-> Classify(ws[k + 1])]

NumInts(ns) == [k \in 1..Len(ns) |-> NumInt(ns[k])]

IsStackPop(e) == e.kind = "stackPop"

\* C5: with the Blocks cond, true, false on top of the stack, if pops the
\* three, false first; evaluates the values of cond; pops the Number c they
\* leave on top; then evaluates the values of the true branch when c is not
\* zero and of the false branch when it is zero, and no value of the other.
C5_IfChoosesOneBranch ==
  (Over /\ text \in IfTexts) =>
  \A p \in {"", "4 "}, c \in Conds, t \in TrueBranches, f \in FalseBranches :
    text = IfText(p, c, t, f) =>
      LET below  == IF p = "" THEN <<>> ELSE <<NumInt(4)>>
          chosen == IF c.c # 0 THEN t ELSE f
          pops   == SelectSeq(events, IsStackPop)
      IN  /\ status = "done"
          /\ evalLog = below \o <<Block(BodyValues(c.src)), Block(BodyValues(t.src)),
                                  Block(BodyValues(f.src)), Operator("if")>>
                             \o BodyValues(c.src) \o BodyValues(chosen.src)
          /\ SubSeq(pops, 1, 3) = <<StackPopEvent(Block(BodyValues(f.src))),
                                    StackPopEvent(Block(BodyValues(t.src))),
                                    StackPopEvent(Block(BodyValues(c.src)))>>
          /\ pops[3 + c.pops + 1] = StackPopEvent(NumInt(c.c))
          /\ stack = below \o NumInts(c.below) \o NumInts(chosen.leaves)

C5_Witness ==
  /\ text = "4 { 3 2 < } { 7 8 + } { 3 } if"
  /\ status = "done"
  /\ stack = <<NumInt(4), NumInt(3)>>

-----------------------------------------------------------------------------
(* C8: the scope of an invocation is gone when the invocation returns *)

\* The innermost generator is a Block invocation about to return.
InvokeReturns == Suspended("invoke") /\ Last(ctl).i > Len(Last(ctl).values)

\* C8: when a Block invocation returns, the scope chain is the chain the
\* invocation started from, and a name that def bound in the scope of the
\* invocation, and that no outer scope binds, resolves to nothing: a later
\* use of it throws "<name> is not a defined operation".
C8_ScopeTeardown ==
  /\ [][InvokeReturns =>
          /\ vars' = Last(ctl).chain
          /\ \A n \in DOMAIN Last(vars) :
               (\A k \in 1..(Len(vars) - 1) : n \notin DOMAIN vars[k])
                 => IsNull(FindVar(vars', n))]_vars_all
  /\ [](/\ (text = "/f { /x 1 def x } def f x" /\ Over)
             => /\ status = "error"
                /\ err = "x is not a defined operation"
                /\ stack = <<NumInt(1)>>
                /\ Len(vars) = 1
                /\ DOMAIN vars[1] = NativeNames \cup {"f"}
        /\ (text = "/f { /x 1 def } def f x" /\ Over)
             => (status = "error" /\ err = "x is not a defined operation" /\ stack = <<>>)
        /\ (text = "/f { /g { /x 1 def } def g x } def f" /\ Over)
             => /\ status = "error"
                /\ err = "x is not a defined operation"
                /\ Len(vars) = 2
                /\ DOMAIN vars[2] = {"g"}
        /\ (text = "/f { { 1 } { /x 2 def } { } if x } def f x" /\ Over)
             => /\ status = "error"
                /\ err = "x is not a defined operation"
                /\ stack = <<NumInt(2)>>
        /\ (text = "/x 5 def /f { /x 1 def x } def f x" /\ Over)
             => (status = "done" /\ stack = <<NumInt(1), NumInt(5)>>))

C8_Witness ==
  /\ text = "/f { /x 1 def x } def f x"
  /\ status = "error"
  /\ err = "x is not a defined operation"
  /\ stack = <<NumInt(1)>>
  /\ Len(vars) = 1

-----------------------------------------------------------------------------
(* C10: a pop of the empty operand stack throws *)

\* This step starts a native operator: eval is called on an Operator that
\* resolves to a Native, whose first statement pops the stack.
NativeStarts ==
  /\ EvalsOperator
  /\ FindVar(vars, Last(evalLog').op).kind = "Native"

\* The innermost generator is a native operator whose next statement pops
\* the stack.
NativePopsNext ==
  /\ status = "running"
  /\ ctl # <<>>
  /\ LET fr == Last(ctl)
     IN  \/ fr.f = "binary" /\ fr.pc = "left"
         \/ fr.f = "opIf" /\ fr.pc = "falseBranch" /\ fr.falseBranch.kind = "Block"
         \/ fr.f = "opIf" /\ fr.pc = "trueBranch" /\ fr.trueBranch.kind = "Block"
         \/ fr.f = "opIf" /\ fr.pc = "cond" /\ fr.cond.kind = "Block" /\ fr.cond.values = <<>>
         \/ fr.f = "opIf" /\ fr.pc = "condLoop" /\ fr.i > Len(fr.values)
         \/ fr.f = "opDef" /\ fr.pc \in {"evalResult", "symbol"}
         \/ fr.f = "opExch" /\ fr.pc = "second"

\* C10: a native operator that pops the empty operand stack throws at that
\* pop: no event is yielded for the missing value, so no stack-pop event
\* carries undefined, and after the error nothing is pushed or yielded.
C10_UnderflowThrows ==
  /\ [][(stack = <<>> /\ (NativeStarts \/ NativePopsNext))
          => /\ status' = "error"
             /\ err' = "Stack pop error"
             /\ stack' = <<>>
             /\ events' = events]_vars_all
  /\ [](\A k \in 1..Len(events) : IsStackPop(events[k]) => ~IsNull(events[k].value))
  /\ [][status = "error" => (stack' = stack /\ events' = events)]_vars_all

C10_Witness ==
  /\ text = "1 +"
  /\ status = "error"
  /\ err = "Stack pop error"
  /\ stack = <<>>
  /\ events = <<StateEvent, StateEvent, StackPopEvent(NumInt(1))>>

-----------------------------------------------------------------------------
(* C11: a value of the wrong kind is an error before any effect *)

\* The innermost generator is a binary operator that has popped both
\* operands, not both Numbers.
BinaryMismatch ==
  /\ Suspended("binary")
  /\ Last(ctl).pc = "check"
  /\ (Last(ctl).right.kind # "Num" \/ Last(ctl).left.kind # "Num")

\* The innermost generator is `if`, and the value it has popped last, as
\* false branch, true branch or condition, is not a Block.
IfArgMismatch ==
  /\ Suspended("opIf")
  /\ LET fr == Last(ctl)
     IN  \/ fr.pc = "falseBranch" /\ fr.falseBranch.kind # "Block"
         \/ fr.pc = "trueBranch" /\ fr.trueBranch.kind # "Block"
         \/ fr.pc = "cond" /\ fr.cond.kind # "Block"

\* The innermost generator is `if`, and the value its condition left on
\* top is not a Number.
IfCondMismatch ==
  /\ Suspended("opIf")
  /\ Last(ctl).pc = "condResult"
  /\ Last(ctl).condResult.kind # "Num"

\* The innermost generator is def, and the value it has popped as its
\* target is not a Symbol.
DefMismatch ==
  /\ Suspended("opDef")
  /\ Last(ctl).pc = "bind"
  /\ Last(ctl).symbol.kind # "Symbol"

\* The run ends here with the error msg, and nothing is pushed, evaluated
\* or bound.
ThrowsBeforeEffect(msg) ==
  /\ status' = "error"
  /\ err' = msg
  /\ stack' = stack
  /\ evalLog' = evalLog
  /\ vars' = vars
  /\ events' = events

\* C11: a native operator given a value of the wrong kind throws before
\* its effect.  A binary operator with an operand that is not a Number
\* throws its "Expect Num Num" error and pushes no result; `if` with a
\* popped argument that is not a Block throws "Expect block" and no value
\* of a condition or of a branch is evaluated; `if` whose condition leaves
\* no Number on top throws "Expect num" and evaluates no branch; def whose
\* target is not a Symbol throws "Expect symbol" and binds nothing.  So
\* `1 2 if` ends with "Expect block", nothing evaluated after `if`.
C11_TypeMismatchBeforeEffect ==
  /\ [][/\ BinaryMismatch => ThrowsBeforeEffect(BinaryError(Last(ctl).fn))
        /\ (Suspended("binary") /\ Last(ctl).right.kind # "Num")
             => (status' = "error" \/ stack' = Front(stack))
        /\ IfArgMismatch => ThrowsBeforeEffect("Expect block")
        /\ IfCondMismatch => ThrowsBeforeEffect("Expect num")
        /\ DefMismatch => ThrowsBeforeEffect("Expect symbol")]_vars_all
  /\ [](/\ (text = "1 2 if" /\ Over)
             => /\ status = "error"
                /\ err = "Expect block"
                /\ evalLog = <<NumInt(1), NumInt(2), Operator("if")>>
                /\ stack = <<NumInt(1)>>
        /\ (text = "{ /a } { 2 } { 3 } if" /\ Over)
             => /\ status = "error"
                /\ err = "Expect num"
                /\ Last(evalLog) = Symbol("a")
                /\ stack = <<>>
        /\ (text = "/x 1 +" /\ Over)
             => (status = "error" /\ err = "Expect Num Num +" /\ stack = <<>>)
        /\ (text = "/f { 1 2 def } def f" /\ Over)
             => /\ status = "error"
                /\ err = "Expect symbol"
                /\ vars = <<Bound(BaseScope, "f", Block(<<NumInt(1), NumInt(2), Operator("def")>>)),
                            EmptyScope>>)

C11_Witness ==
  /\ text = "1 { 2 } *"
  /\ status = "error"
  /\ err = "Expect Num Num *"
  /\ stack = <<>>
  /\ events[Len(events)] = StackPopEvent(NumInt(1))

-----------------------------------------------------------------------------
(* C12: the words of a block literal are captured, not run *)

\* run() is about to feed a word other than "{", "}" and "" while a block
\* literal is open.
CapturesWord == AtWord /\ blocks # <<>> /\ words[pos] \notin {"", "{", "}"}

\* body appended to the innermost open body.
Captured(value) == [blocks EXCEPT ![Len(blocks)] = Append(@, value)]

\* C12: while a block literal is open, a word other than "{", "}" and ""
\* appends exactly one Value, the word's Number, Symbol or Operator, to the
\* innermost open body; the operand stack and the scope chain stay as they
\* are, eval looks nothing up and no error ends the run.  A literal closed
\* while an outer one is open is appended to the outer body as one Block
\* and is not pushed on the operand stack.
C12_BlockCapture ==
  /\ [][/\ CapturesWord
             => /\ blocks' = Captured(Classify(words[pos]))
                /\ stack' = stack
                /\ vars' = vars
                /\ evalLog' = evalLog
                /\ status' = "running"
                /\ ctl' = <<>>
                /\ pos' = pos + 1
        /\ (Suspended("close") /\ blocks # <<>>)
             => /\ blocks' = Captured(Block(Last(ctl).values))
                /\ stack' = stack
                /\ vars' = vars
                /\ evalLog' = evalLog
                /\ status' = "running"
                /\ ctl' = <<>>]_vars_all
  /\ [](/\ blocks # <<>> => (status # "error" /\ (ctl = <<>> \/ Suspended("close")))
        /\ (text = "{ foo + puts if def exch }" /\ Over)
             => /\ status = "done"
                /\ stack = <<Block(<<Operator("foo"), Operator("+"), Operator("puts"),
                                     Operator("if"), Operator("def"), Operator("exch")>>)>>
                /\ vars = <<BaseScope>>
        /\ (text = "1 { 2 { 3 + } 4 }" /\ Over)
             => /\ status = "done"
                /\ stack = <<NumInt(1),
                             Block(<<NumInt(2), Block(<<NumInt(3), Operator("+")>>), NumInt(4)>>)>>
        /\ (text = "{ { foo }" /\ Over)
             => /\ status = "done"
                /\ stack = <<>>
                /\ blocks = <<(<<Block(<<Operator("foo")>>)>>)>>)

C12_Witness ==
  /\ text = "1 { 2 { 3 + } 4 }"
  /\ AtWord
  /\ words[pos] = "4"
  /\ stack = <<NumInt(1)>>
  /\ blocks = <<(<<NumInt(2), Block(<<NumInt(3), Operator("+")>>)>>)>>

-----------------------------------------------------------------------------
(* C13: "}" with no block literal open *)

\* run() is about to feed "}" while no block literal is open.
ClosesNothing == AtWord /\ words[pos] = "}" /\ blocks = <<>>

\* C13: "}" with no block literal open ends the run at once with
\* "Block stack underflow": no event is yielded for the word before the
\* error, and the operand stack, the scope chain and the open block
\* literals are left as they are.
C13_CloseUnderflowThrowsAtOnce ==
  [][ClosesNothing
       => /\ status' = "error"
          /\ err' = "Block stack underflow"
          /\ events' = events
          /\ stack' = stack
          /\ vars' = vars
          /\ blocks' = blocks]_vars_all

\* What the run does agree with: the error is thrown, with the machine's
\* contents unchanged, one resumption after a state event for the word.
C13_CloseUnderflowThrowsAfterEvent ==
  [][/\ ClosesNothing
          => /\ status' = "running"
             /\ events' = Append(events, StateEvent)
             /\ Suspended("close")'
             /\ <<stack, vars, blocks>>' = <<stack, vars, blocks>>
     /\ (Suspended("close") /\ Last(ctl).underflow)
          => /\ status' = "error"
             /\ err' = "Block stack underflow"
             /\ events' = events
             /\ <<stack, vars, blocks>>' = <<stack, vars, blocks>>]_vars_all

-----------------------------------------------------------------------------
(* C14: the state an event carries *)

CarriesState(e) == e.kind \in {"state", "stackPop"}

\* What event e is found to carry when it is read now.
Carried(e) == Deref(Cur, e.state)

\* C14: the stack, scope chain and open block literals an event carries
\* stay what the machine held when the event was yielded, whatever the
\* machine does afterwards; so of the events collected from a run, two
\* that were yielded while the machine's contents differed carry different
\* contents.
C14_EventsAreSnapshots ==
  /\ \A k \in 1..Len(events) :
       CarriesState(events[k]) => Carried(events[k]) = emitted[k]
  /\ Over =>
       \A j, k \in 1..Len(events) :
         (CarriesState(events[j]) /\ CarriesState(events[k]) /\ emitted[j] # emitted[k])
           => Carried(events[j]) # Carried(events[k])

\* What the run does agree with: the event yielded last, read before the
\* generator is resumed, shows the contents of its yield.
C14_LastEventIsCurrent ==
  (events # <<>> /\ CarriesState(Last(events)))
    => Carried(Last(events)) = Last(emitted)

-----------------------------------------------------------------------------
(* C15: the events of a run, word by word *)

\* C15: while run() is about to feed the first word, and after it has
\* returned, the events are those of the words alone: none before the
\* first word, none added after the last.
C15_NoDriverEvents ==
  /\ (status = "running" /\ pos = 1 /\ ctl = <<>>) => events = <<>>
  /\ (status = "done" /\ words = <<"2", "3">>) => events = <<StateEvent, StateEvent>>

\* The words of initialInput, in the order run() feeds them.
InitialInputWords ==
  <<"/x", "10", "def", "/y", "{", "20", "}", "def", "/xy", "{", "x", "y", "+", "}", "def",
    "", "xy", "x", "*", "puts", "">>

\* This step yields exactly one event, after those yielded before.
YieldsOne == Len(events') = Len(events) + 1 /\ SubSeq(events', 1, Len(events)) = events

\* C15, amended: run() first yields one state event of its own, showing
\* the machine before any word; after it the events are those the machine
\* yields for each word, the words taken in source order (lines split on
\* newline, each line on single spaces): a word is fed only when the parse
\* of the word before it has returned, every event is appended after the
\* earlier ones, and run() returns after the last word without an event
\* of its own.
C15_OneDriverEventThenWords ==
  /\ [][/\ status = "init"
             => /\ events = <<>> /\ events' = <<StateEvent>>
                /\ pos = 1 /\ pos' = 1
                /\ status' = "running"
                /\ Contents(Cur)' = Contents(Cur)
        /\ events' # events => YieldsOne
        /\ (status = "running" /\ events' # events)
             => \/ ctl = <<>> /\ pos <= Len(words) /\ pos' = pos + 1
                \/ ctl # <<>> /\ pos' = pos
        /\ pos' # pos => (status = "running" /\ ctl = <<>> /\ pos' = pos + 1)
        /\ status' = "done"
             => (pos > Len(words) /\ ctl = <<>> /\ events' = events)
        /\ Over => events' = events]_vars_all
  /\ [](/\ text = initialInput => words = InitialInputWords
        /\ text = "{ 1  2 }" => words = <<"{", "1", "", "2", "}">>
        /\ text = "" => words = <<"">>
        /\ text = "\n" => words = <<"", "">>
        /\ text = "2\n3" => words = <<"2", "3">>
        /\ text = "2 \n" => words = <<"2", "", "">>
        /\ text = "2 3\n+\n\n4 *" => words = <<"2", "3", "+", "", "4", "*">>
        /\ (text = "2 3\n+\n\n4 *" /\ Over) => (status = "done" /\ stack = <<NumInt(20)>>)
        /\ (status = "done" /\ words = <<"2", "3">>)
             => events = <<StateEvent, StateEvent, StateEvent>>
        /\ (status = "done" /\ words = <<"">>) => events = <<StateEvent, StateEvent>>)

C15_Witness ==
  /\ text = "2 3"
  /\ status = "done"
  /\ events = <<StateEvent, StateEvent, StateEvent>>
  /\ emitted[1].stack = <<>>
  /\ emitted[2].stack = <<NumInt(2)>>

-----------------------------------------------------------------------------
(* C16: every run ends *)

\* The errors the Vm throws (StackLang.ts 77, 90, 118, 156-295).
VmErrors ==
  {"Stack pop error", "Block stack underflow", "Expect block", "Expect num",
   "Expect symbol", "Expect value but got undefined", "stack under-run"}
    \cup {BinaryError(fn) : fn \in BinaryFns}
    \cup {words[k] \o " is not a defined operation" : k \in 1..Len(words)}

\* C16: a run that is over has ended normally, after the last word, or
\* with one of the errors of the Vm; so has the run of /f { f } def f.
C16_EndsNormallyOrWithVmError ==
  Over => \/ status = "done" /\ pos = Len(words) + 1
          \/ status = "error" /\ err \in VmErrors

\* What the run of /f { f } def f does agree with: every invocation of f
\* pushes a scope, yields a state event and invokes f again, one generator
\* deeper, and the run ends only where the host gives up.
C16_RecursionEndsAtHostLimit ==
  text = "/f { f } def f" =>
    /\ (status = "running" /\ pos > Len(words))
         => /\ ctl # <<>>
            /\ \A k \in 1..Len(ctl) : ctl[k].f = "invoke"
            /\ Len(vars) = Len(ctl) + 1
            /\ stack = <<>>
    /\ Over => (status = "error" /\ err = "Maximum call stack size exceeded"
                                 /\ Len(vars) = MaxDepth + 1)

-----------------------------------------------------------------------------
(* C17: the base scope *)

\* C17: in every state, error states included, the scope chain has a
\* first scope and that scope binds each of + - * / < if def exch puts to
\* the native operation it was created with; a def naming one of them at
\* top level binds nothing, and one made inside a block invocation binds
\* the name in the scope of the invocation only.
C17_BaseScopeKept ==
  /\ Len(vars) >= 1
  /\ NativeNames \subseteq DOMAIN vars[1]
  /\ \A n \in NativeNames : vars[1][n] = Native(NativeFn(n))
  /\ (text = "/+ 7 def 1 2 +" /\ Over)
       => (status = "done" /\ stack = <<NumInt(3)>> /\ vars = <<BaseScope>>)
  /\ (text = "/f { /+ 7 def 1 2 + } def f 1 2 +" /\ Over)
       => (status = "done" /\ stack = <<NumInt(1), NumInt(2), NumInt(7), NumInt(3)>>)

C17_Witness ==
  /\ text = "/f { /+ 7 def 1 2 + } def f 1 2 +"
  /\ Len(vars) = 2
  /\ vars[2] = Bound(EmptyScope, "+", NumInt(7))
  /\ vars[1]["+"] = Native("add")
  /\ stack = <<NumInt(1), NumInt(2), NumInt(7)>>

-----------------------------------------------------------------------------
(* C18: the two events of "}" *)

\* run() is about to feed "}" while a block literal is open.
ClosesBlock == AtWord /\ words[pos] = "}" /\ blocks # <<>>

\* parse("}") is suspended at its yield, the popped body in hand.
ClosePending == Suspended("close") /\ ~Last(ctl).underflow

\* C18: "}" with a block literal open yields exactly two state events.
\* The first is yielded when the innermost open body has been popped and
\* the Block is not yet evaluated: the operand stack and the enclosing
\* bodies are as before the word.  The second is yielded when the Block,
\* holding the captured values in source order, has been pushed on the
\* operand stack (no literal left open) or appended to the enclosing open
\* body; after it the word is done.
C18_CloseYieldsTwoStateEvents ==
  /\ [][/\ ClosesBlock
             => /\ events' = Append(events, StateEvent)
                /\ Last(emitted') = [stack |-> stack, vars |-> vars, blocks |-> Front(blocks)]
                /\ Contents(Cur)' = Last(emitted')
                /\ ClosePending'
                /\ Last(ctl').values = Last(blocks)
        /\ ClosePending
             => /\ events' = Append(events, StateEvent)
                /\ Last(emitted') =
                     [stack |-> IF blocks = <<>> THEN Append(stack, Block(Last(ctl).values))
                                ELSE stack,
                      vars |-> vars,
                      blocks |-> IF blocks = <<>> THEN blocks
                                 ELSE Captured(Block(Last(ctl).values))]
                /\ Contents(Cur)' = Last(emitted')
                /\ status' = "running"
                /\ ctl' = <<>>]_vars_all
  /\ [](/\ (text = "{ 1 2 + }" /\ Over)
             => /\ status = "done"
                /\ stack = <<Block(<<NumInt(1), NumInt(2), Operator("+")>>)>>
                /\ Len(events) = 7
                /\ emitted[6] = [stack |-> <<>>, vars |-> <<BaseScope>>, blocks |-> <<>>]
                /\ emitted[7] = [stack |-> stack, vars |-> <<BaseScope>>, blocks |-> <<>>]
        /\ (text = "{ { 1 } }" /\ Over)
             => /\ status = "done"
                /\ Len(events) = 8
                /\ emitted[5].blocks = <<(<<>>)>>
                /\ emitted[6].blocks = <<(<<Block(<<NumInt(1)>>)>>)>>
                /\ emitted[6].stack = <<>>)

C18_Witness ==
  /\ text = "{ { 1 } }"
  /\ AtWord
  /\ pos = 5
  /\ Len(events) = 6
  /\ blocks = <<(<<Block(<<NumInt(1)>>)>>)>>
  /\ stack = <<>>

-----------------------------------------------------------------------------
(* C19: if runs its condition and its branch in the scope it is called in *)

\* This step starts the invocation of a Block: one scope and one
\* generator more.
InvocationStarts ==
  /\ Len(ctl') = Len(ctl) + 1
  /\ Last(ctl').f = "invoke"
  /\ vars' = Append(vars, EmptyScope)

\* The innermost generator is a def about to bind, called directly by the
\* loop of an `if` over its condition or its branch.
DefBindsInsideIf ==
  /\ Suspended("opDef")
  /\ Last(ctl).pc = "bind"
  /\ Last(ctl).symbol.kind = "Symbol"
  /\ Len(ctl) >= 2
  /\ ctl[Len(ctl) - 1].f = "opIf"

\* C19: `if` pushes no scope.  Every step of `if` leaves the scope chain
\* as it is, but for the start of a Block invocation made by a value of
\* the condition or of the branch (whose scope is popped when that
\* invocation returns, C8), so the chain has the same length when `if`
\* returns as when it was called.  A def executed directly in the
\* condition or in the branch binds in the scope that was topmost when
\* `if` was called, and the name resolves after `if` has returned.
C19_IfInPlace ==
  /\ [][/\ Suspended("opIf") => (vars' = vars \/ InvocationStarts)
        /\ DefBindsInsideIf
             => /\ Len(vars') = Len(vars)
                /\ Front(vars') = Front(vars)
                /\ Last(vars') = ScopeDefine(Last(vars), Last(ctl).symbol.sym,
                                             Last(ctl).evalResult)
                /\ Suspended("opIf")']_vars_all
  /\ [](/\ (text = "{ 1 } { /x 2 def } { } if x" /\ Over)
             => /\ status = "done"
                /\ stack = <<NumInt(2)>>
                /\ vars = <<Bound(BaseScope, "x", NumInt(2))>>
        /\ (text = "{ /x 5 def 1 } { x } { } if x" /\ Over)
             => /\ status = "done"
                /\ stack = <<NumInt(5), NumInt(5)>>
                /\ vars = <<Bound(BaseScope, "x", NumInt(5))>>
        /\ (text = "{ 0 } { } { /x 3 def } if x" /\ Over)
             => (status = "done" /\ stack = <<NumInt(3)>>)
        /\ (text = "/x 1 def { 1 } { /x 2 def x } { } if x" /\ Over)
             => (status = "done" /\ stack = <<NumInt(1), NumInt(1)>>)
        /\ (text = "{ 1 } { { 0 } { } { /x 6 def } if } { } if x" /\ Over)
             => (status = "done" /\ stack = <<NumInt(6)>> /\ Len(vars) = 1)
        /\ (text = "/f { { /x 5 def 1 } { x } { } if x } def f" /\ InvokeReturns)
             => /\ stack = <<NumInt(5), NumInt(5)>>
                /\ Len(vars) = 2
                /\ vars[2] = Bound(EmptyScope, "x", NumInt(5))
        /\ (text = "/g { /x 4 def x } def { 1 } { g x } { } if" /\ Over)
             => /\ status = "error"
                /\ err = "x is not a defined operation"
                /\ stack = <<NumInt(4)>>
                /\ Len(vars) = 1)

C19_Witness ==
  /\ text = "{ /x 5 def 1 } { x } { } if x"
  /\ status = "done"
  /\ stack = <<NumInt(5), NumInt(5)>>
  /\ vars = <<Bound(BaseScope, "x", NumInt(5))>>

-----------------------------------------------------------------------------
(* C20: what the operand stack and the bindings hold *)

DataKinds == {"Num", "Symbol", "Block"}

\* The names of scope k that def has bound: all of them, but for the
\* natives of the base scope.
DefBound(k) == IF k = 1 THEN DOMAIN vars[1] \ NativeNames ELSE DOMAIN vars[k]

\* The innermost generator is def or exch about to call eval on the value
\* it has popped.
EvalsPopped ==
  \/ Suspended("opDef") /\ Last(ctl).pc = "eval"
  \/ Suspended("opExch") /\ Last(ctl).pc = "eval"

\* The value def or exch is about to call eval on.
PoppedValue == IF Last(ctl).f = "opDef" THEN Last(ctl).value ELSE Last(ctl).second

\* C20: the operand stack holds Numbers, Symbols and Blocks only, and
\* every name def has bound is bound to a Number, a Symbol or a Block.
C20_OnlyData ==
  /\ \A k \in 1..Len(stack) : stack[k].kind \in DataKinds
  /\ \A k \in 1..Len(vars) : \A n \in DefBound(k) : vars[k][n].kind \in DataKinds

\* No word of the program is an operator that names a property of
\* Object.prototype.
NoInheritedWord == \A k \in 1..Len(words) : words[k] \notin ObjectPrototype

\* The same for the programs with no such word, with the consequence the
\* claim draws: the eval that def and exch apply to the value they popped
\* pushes the value back and does nothing else.
C20_OnlyDataOwnNames ==
  /\ [](NoInheritedWord => C20_OnlyData)
  /\ [][(NoInheritedWord /\ EvalsPopped)
          => /\ stack' = Append(stack, PoppedValue)
             /\ vars' = vars
             /\ Len(ctl') = Len(ctl)
             /\ status' = "running"]_vars_all

-----------------------------------------------------------------------------
(* C21: names are resolved when they are evaluated *)

\* The scopes of the chain, as it is now, that bind name.
Binders(name) == {k \in 1..Len(vars) : name \in DOMAIN vars[k]}

\* The binding of name in the innermost scope that has one.
InnermostBinding(name) ==
  vars[CHOOSE k \in Binders(name) : \A j \in Binders(name) : j <= k][name]

\* C21: an Operator of a Block body is resolved when it is evaluated,
\* against the scope chain of that moment, innermost binding first.  So
\* a Block g that names x, invoked from the invocation of a Block f that
\* has bound x with def, resolves x to f's binding: the program
\* /g { x } def /f { /x 1 def g } def f pushes 1; and g invoked at top
\* level with x bound nowhere throws "x is not a defined operation".
C21_DynamicResolution ==
  /\ [][(EvalsOperator /\ Binders(Last(evalLog').op) # {}
                       /\ InnermostBinding(Last(evalLog').op).kind \in DataKinds
                       /\ InnermostBinding(Last(evalLog').op).kind # "Block")
          => /\ stack' = Append(stack, InnermostBinding(Last(evalLog').op))
             /\ status' = "running"]_vars_all
  /\ [](/\ (text = "/g { x } def /f { /x 1 def g } def f" /\ Over)
             => /\ status = "done"
                /\ stack = <<NumInt(1)>>
                /\ DOMAIN vars[1] = NativeNames \cup {"g", "f"}
        /\ (text = "/g { x } def g" /\ Over)
             => (status = "error" /\ err = "x is not a defined operation" /\ stack = <<>>)
        /\ (text = "/g { x } def /f { /x 1 def g } def f g" /\ Over)
             => /\ status = "error"
                /\ err = "x is not a defined operation"
                /\ stack = <<NumInt(1)>>
        /\ (text = "/x 5 def /g { x } def /f { /x 1 def g } def f g" /\ Over)
             => (status = "done" /\ stack = <<NumInt(1), NumInt(5)>>)
        /\ (text = "/g { x } def /x 2 def g" /\ Over)
             => (status = "done" /\ stack = <<NumInt(2)>>)
        /\ (text = "/g { x } def /f { /x 1 def g } def /h { /x 3 def f g } def h" /\ Over)
             => (status = "done" /\ stack = <<NumInt(1), NumInt(3)>>))

\* g is being invoked from the invocation of f, x bound to 1 in f's scope
\* and in no other, and x has just been pushed as 1.
C21_Witness ==
  /\ text = "/g { x } def /f { /x 1 def g } def f"
  /\ status = "running"
  /\ Len(ctl) = 2
  /\ ctl[1].f = "invoke" /\ ctl[2].f = "invoke"
  /\ vars[2] = Bound(EmptyScope, "x", NumInt(1))
  /\ vars[3] = EmptyScope
  /\ "x" \notin DOMAIN vars[1]
  /\ Last(evalLog) = Operator("x")
  /\ stack = <<NumInt(1)>>

====
